---- MODULE Spec2Model ----
(***************************************************************************)
(* CSV to SRT subtitle converter (kuboon/csv-to-srt-online).               *)
(*                                                                         *)
(* JavaScript strings are modelled as sequences of one-character strings.  *)
(* A JavaScript null or undefined string is the one-element sequence NULL, *)
(* whose element is not a character, so that it differs from every string. *)
(***************************************************************************)
EXTENDS Integers, Sequences, FiniteSets, TLC

VARIABLES
  timeStr,       \* convertTime: the argument of the call
  timeRet,       \* convertTime: the returned value (NotCalled before the call)
  tokFn,         \* tokenizer: which function runs, "rows" or "line"
  tokText,       \* tokenizer: the text being tokenized
  tok,           \* tokenizer: loop state (i, rows, currentRow, currentField, inQuotes)
  tokPc,         \* tokenizer: "loop" while the for loop runs, then "returned"
  tokRet,        \* tokenizer: the returned value (empty before the return)
  csvText,       \* csvToSrt: the csvText argument
  options,       \* csvToSrt: the options argument as passed by the caller
  pc,            \* csvToSrt: position in the function body
  removeGaps,    \* csvToSrt: the destructured removeGaps local
  rows,          \* csvToSrt: the rows returned by parseCSVRows
  i,             \* csvToSrt: index of the extraction loop (0-based, as in the source)
  subtitles,     \* csvToSrt: the subtitles array
  origin,        \* csvToSrt: for each pushed subtitle, the loop index i that pushed it
  ret,           \* csvToSrt: the returned string (NotCalled before the return)
  argv,          \* cli: the command-line arguments
  stdin,         \* cli: the chunks standard input delivers
  stdinPos,      \* cli: number of chunks read so far
  cliPc,         \* cli: position in main
  cliRemoveGaps, \* cli: the removeGaps local of main
  cliText,       \* cli: the text read from standard input so far
  cliCalls,      \* cli: the calls of csvToSrt made, as [text, options]
  stdout,        \* cli: what was written to standard output, in order
  stderr,        \* cli: what was written to standard error, in order
  exitCode,      \* cli: the exit status (-1 while the process runs)
  csvInputValue, \* app: csvInput.value
  checked,       \* app: removeGapsCheckbox.checked
  srtOutputValue,\* app: srtOutput.value
  readers,       \* app: the file contents of the FileReaders still loading
  appEvent,      \* app: the event whose handler ran last
  clipboardApi,  \* app: whether navigator.clipboard.writeText exists
  copyLabel,     \* app: copyButton.textContent
  copyPending,   \* app: originalText of each click awaiting writeText
  copyTimers,    \* app: originalText of each pending timer of the copy button
  downloadLabel, \* app: downloadButton.textContent
  downloadTimers,\* app: originalText of each pending timer of the download button
  downloads,     \* app: number of downloads triggered
  clicks         \* app: number of button clicks so far

vars == <<timeStr, timeRet, tokFn, tokText, tok, tokPc, tokRet,
          csvText, options, pc, removeGaps, rows, i, subtitles, origin, ret,
          argv, stdin, stdinPos, cliPc, cliRemoveGaps, cliText, cliCalls,
          stdout, stderr, exitCode,
          csvInputValue, checked, srtOutputValue, readers, appEvent,
          clipboardApi, copyLabel, copyPending, copyTimers,
          downloadLabel, downloadTimers, downloads, clicks>>

timeVars == <<timeStr, timeRet>>
tokVars == <<tokFn, tokText, tok, tokPc, tokRet>>
csvVars == <<csvText, options, pc, removeGaps, rows, i, subtitles, origin, ret>>
cliVars == <<argv, stdin, stdinPos, cliPc, cliRemoveGaps, cliText, cliCalls,
             stdout, stderr, exitCode>>
appVars == <<csvInputValue, checked, srtOutputValue, readers, appEvent>>
btnVars == <<clipboardApi, copyLabel, copyPending, copyTimers,
             downloadLabel, downloadTimers, downloads, clicks>>
frontVars == <<cliVars, appVars, btnVars>>

----------------------------------------------------------------------------
(* Values and characters *)

NULL == <<"null">>
NotCalled == <<"not called">>

COMMA == ","
TAB == "\t"
QUOTE == "\""
LF == "\n"
CR == "\r"
SPACE == " "

\* The characters String.prototype.trim removes, among those the model uses.
WhiteSpace == {SPACE, TAB, LF, CR}

Digits == {"0", "1", "2", "3", "4", "5", "6", "7", "8", "9"}

DigitVal(c) ==
  CASE c = "0" -> 0 [] c = "1" -> 1 [] c = "2" -> 2 [] c = "3" -> 3
    [] c = "4" -> 4 [] c = "5" -> 5 [] c = "6" -> 6 [] c = "7" -> 7
    [] c = "8" -> 8 [] c = "9" -> 9

DigitChar(d) ==
  CASE d = 0 -> "0" [] d = 1 -> "1" [] d = 2 -> "2" [] d = 3 -> "3"
    [] d = 4 -> "4" [] d = 5 -> "5" [] d = 6 -> "6" [] d = 7 -> "7"
    [] d = 8 -> "8" [] d = 9 -> "9"

----------------------------------------------------------------------------
(* String primitives of the JavaScript runtime, as the library uses them *)

RECURSIVE trimStart(_)
trimStart(s) ==
  IF s # <<>> /\ Head(s) \in WhiteSpace THEN trimStart(Tail(s)) ELSE s

RECURSIVE trimEnd(_)
trimEnd(s) ==
  IF s # <<>> /\ s[Len(s)] \in WhiteSpace
    THEN trimEnd(SubSeq(s, 1, Len(s) - 1))
    ELSE s

trim(s) == trimEnd(trimStart(s))

RECURSIVE splitFrom(_, _, _, _, _)
splitFrom(s, delims, k, parts, cur) ==
  IF k > Len(s) THEN Append(parts, cur)
  ELSE IF s[k] \in delims
    THEN splitFrom(s, delims, k + 1, Append(parts, cur), <<>>)
    ELSE splitFrom(s, delims, k + 1, parts, Append(cur, s[k]))

\* s.split(/[...]/) on a character class
split(s, delims) == splitFrom(s, delims, 1, <<>>, <<>>)

RECURSIVE padStart(_, _, _)
padStart(s, n, c) ==
  IF Len(s) >= n THEN s ELSE padStart(<<c>> \o s, n, c)

\* A JavaScript number: an integer or NaN.
NaN == [nan |-> TRUE, val |-> 0]
Num(n) == [nan |-> FALSE, val |-> n]

RECURSIVE digitsValue(_, _)
digitsValue(s, acc) ==
  IF s # <<>> /\ Head(s) \in Digits
    THEN digitsValue(Tail(s), 10 * acc + DigitVal(Head(s)))
    ELSE acc

\* parseInt(s, 10): leading white space, an optional sign, then the longest
\* run of decimal digits; NaN when that run is empty.
parseInt(s) ==
  LET t == trimStart(s)
      neg == t # <<>> /\ Head(t) = "-"
      u == IF t # <<>> /\ Head(t) \in {"-", "+"} THEN Tail(t) ELSE t
  IN IF u = <<>> \/ Head(u) \notin Digits THEN NaN
     ELSE Num(IF neg THEN 0 - digitsValue(u, 0) ELSE digitsValue(u, 0))

RECURSIVE natToString(_)
natToString(n) ==
  IF n < 10 THEN <<DigitChar(n)>>
  ELSE Append(natToString(n \div 10), DigitChar(n % 10))

\* Number.prototype.toString for an integer or NaN
numToString(x) ==
  IF x.nan THEN <<"N", "a", "N">>
  ELSE IF x.val < 0 THEN <<"-">> \o natToString(0 - x.val)
  ELSE natToString(x.val)

\* Math.round((frames / 30) * 1000): the nearest integer, halves rounded up.
FramesPerSecond == 30

MathFloor(num, den) == num \div den

MathRound(num, den) == (2 * num + den) \div (2 * den)

framesToMilliseconds(frames) ==
  IF frames.nan THEN NaN
  ELSE Num(MathRound(frames.val * 1000, FramesPerSecond))

----------------------------------------------------------------------------
(* convertTime *)

TimeDelimsColonOnly == {":"}

TimeDelims == {":", ";"}

convertTime(s) ==
  IF s = NULL \/ s = <<>> \/ trim(s) = <<>> THEN NULL
  ELSE LET parts == split(trim(s), TimeDelims)
       IN IF Len(parts) # 4 THEN NULL
          ELSE LET hours == padStart(parts[1], 2, "0")
                   minutes == padStart(parts[2], 2, "0")
                   seconds == padStart(parts[3], 2, "0")
                   frames == parseInt(parts[4])
                   milliseconds == framesToMilliseconds(frames)
                   ms == padStart(numToString(milliseconds), 3, "0")
               IN hours \o <<":">> \o minutes \o <<":">> \o seconds
                    \o <<",">> \o ms

----------------------------------------------------------------------------
(* parseCSVRows and parseCSVLine *)

FieldDelims == {COMMA, TAB}
RowTerminatorsLfOnly == {LF}
RowTerminators == {LF, CR}

\* text[i] with the source's 0-based index; "" stands for undefined (past the end).
charAt(text, k) == IF k + 1 <= Len(text) THEN text[k + 1] ELSE ""

rowsStart ==
  [i |-> 0, rows |-> <<>>, currentRow |-> <<>>, currentField |-> <<>>,
   inQuotes |-> FALSE]

rowsIterAlwaysEmit(text, st) ==
  LET char == charAt(text, st.i)
      nextChar == charAt(text, st.i + 1)
  IN IF char = QUOTE THEN
       IF st.inQuotes /\ nextChar = QUOTE
         THEN [st EXCEPT !.currentField = Append(@, QUOTE), !.i = @ + 2]
         ELSE [st EXCEPT !.inQuotes = ~@, !.i = @ + 1]
     ELSE IF char \in FieldDelims /\ ~st.inQuotes THEN
       [st EXCEPT !.currentRow = Append(@, st.currentField),
                  !.currentField = <<>>, !.i = @ + 1]
     ELSE IF char \in RowTerminators /\ ~st.inQuotes THEN
       LET skip == IF char = CR /\ nextChar = LF THEN 2 ELSE 1
       IN [st EXCEPT
             !.rows = Append(@, Append(st.currentRow, st.currentField)),
             !.currentRow = <<>>, !.currentField = <<>>,
             !.i = @ + skip]
     ELSE [st EXCEPT !.currentField = Append(@, char), !.i = @ + 1]

rowsIterBreakInQuotes(text, st) ==
  LET char == charAt(text, st.i)
      nextChar == charAt(text, st.i + 1)
  IN IF char = QUOTE THEN
       IF st.inQuotes /\ nextChar = QUOTE
         THEN [st EXCEPT !.currentField = Append(@, QUOTE), !.i = @ + 2]
         ELSE [st EXCEPT !.inQuotes = ~@, !.i = @ + 1]
     ELSE IF char \in FieldDelims /\ ~st.inQuotes THEN
       [st EXCEPT !.currentRow = Append(@, st.currentField),
                  !.currentField = <<>>, !.i = @ + 1]
     ELSE IF char \in RowTerminators THEN
       LET skip == IF char = CR /\ nextChar = LF THEN 2 ELSE 1
       IN IF st.currentField # <<>> \/ Len(st.currentRow) > 0
            THEN [st EXCEPT
                    !.rows = Append(@, Append(st.currentRow, st.currentField)),
                    !.currentRow = <<>>, !.currentField = <<>>,
                    !.i = @ + skip]
            ELSE [st EXCEPT !.i = @ + skip]
     ELSE [st EXCEPT !.currentField = Append(@, char), !.i = @ + 1]

\* One iteration of the for loop of parseCSVRows, its i++ included.
rowsIter(text, st) ==
  LET char == charAt(text, st.i)
      nextChar == charAt(text, st.i + 1)
  IN IF char = QUOTE THEN
       IF st.inQuotes /\ nextChar = QUOTE
         THEN [st EXCEPT !.currentField = Append(@, QUOTE), !.i = @ + 2]
         ELSE [st EXCEPT !.inQuotes = ~@, !.i = @ + 1]
     ELSE IF char \in FieldDelims /\ ~st.inQuotes THEN
       [st EXCEPT !.currentRow = Append(@, st.currentField),
                  !.currentField = <<>>, !.i = @ + 1]
     ELSE IF char \in RowTerminators /\ ~st.inQuotes THEN
       LET skip == IF char = CR /\ nextChar = LF THEN 2 ELSE 1
       IN IF st.currentField # <<>> \/ Len(st.currentRow) > 0
            THEN [st EXCEPT
                    !.rows = Append(@, Append(st.currentRow, st.currentField)),
                    !.currentRow = <<>>, !.currentField = <<>>,
                    !.i = @ + skip]
            ELSE [st EXCEPT !.i = @ + skip]
     ELSE [st EXCEPT !.currentField = Append(@, char), !.i = @ + 1]

rowsReturnNoFlush(st) == st.rows

\* The flush after the loop and the return of parseCSVRows.
rowsReturn(st) ==
  IF st.currentField # <<>> \/ Len(st.currentRow) > 0
    THEN Append(st.rows, Append(st.currentRow, st.currentField))
    ELSE st.rows

RECURSIVE rowsLoop(_, _)
rowsLoop(text, st) ==
  IF st.i < Len(text) THEN rowsLoop(text, rowsIter(text, st)) ELSE st

parseCSVRows(text) == rowsReturn(rowsLoop(text, rowsStart))

lineStart == [i |-> 0, fields |-> <<>>, current |-> <<>>, inQuotes |-> FALSE]

lineIterQuoteNotSkipped(line, st) ==
  LET char == charAt(line, st.i)
      nextChar == charAt(line, st.i + 1)
  IN IF char = QUOTE THEN
       IF st.inQuotes /\ nextChar = QUOTE
         THEN [st EXCEPT !.current = Append(@, QUOTE), !.i = @ + 1]
         ELSE [st EXCEPT !.inQuotes = ~@, !.i = @ + 1]
     ELSE IF char \in FieldDelims /\ ~st.inQuotes THEN
       [st EXCEPT !.fields = Append(@, st.current), !.current = <<>>,
                  !.i = @ + 1]
     ELSE [st EXCEPT !.current = Append(@, char), !.i = @ + 1]

lineIterIgnoringQuotes(line, st) ==
  LET char == charAt(line, st.i)
      nextChar == charAt(line, st.i + 1)
  IN IF char = QUOTE THEN
       IF st.inQuotes /\ nextChar = QUOTE
         THEN [st EXCEPT !.current = Append(@, QUOTE), !.i = @ + 2]
         ELSE [st EXCEPT !.inQuotes = ~@, !.i = @ + 1]
     ELSE IF char \in FieldDelims THEN
       [st EXCEPT !.fields = Append(@, st.current), !.current = <<>>,
                  !.i = @ + 1]
     ELSE [st EXCEPT !.current = Append(@, char), !.i = @ + 1]

\* One iteration of the for loop of parseCSVLine, its i++ included.
lineIter(line, st) ==
  LET char == charAt(line, st.i)
      nextChar == charAt(line, st.i + 1)
  IN IF char = QUOTE THEN
       IF st.inQuotes /\ nextChar = QUOTE
         THEN [st EXCEPT !.current = Append(@, QUOTE), !.i = @ + 2]
         ELSE [st EXCEPT !.inQuotes = ~@, !.i = @ + 1]
     ELSE IF char \in FieldDelims /\ ~st.inQuotes THEN
       [st EXCEPT !.fields = Append(@, st.current), !.current = <<>>,
                  !.i = @ + 1]
     ELSE [st EXCEPT !.current = Append(@, char), !.i = @ + 1]

lineReturn(st) == Append(st.fields, st.current)

RECURSIVE lineLoop(_, _)
lineLoop(line, st) ==
  IF st.i < Len(line) THEN lineLoop(line, lineIter(line, st)) ELSE st

parseCSVLine(line) == lineReturn(lineLoop(line, lineStart))

----------------------------------------------------------------------------
(* csvToSrt: the helpers of the function body *)

UpperCase == <<"A", "B", "C", "D", "E", "F", "G", "H", "I", "J", "K", "L", "M",
               "N", "O", "P", "Q", "R", "S", "T", "U", "V", "W", "X", "Y", "Z">>
LowerCase == <<"a", "b", "c", "d", "e", "f", "g", "h", "i", "j", "k", "l", "m",
               "n", "o", "p", "q", "r", "s", "t", "u", "v", "w", "x", "y", "z">>

toLowerChar(c) ==
  IF \E k \in DOMAIN UpperCase : UpperCase[k] = c
    THEN LowerCase[CHOOSE k \in DOMAIN UpperCase : UpperCase[k] = c]
    ELSE c

toLowerCase(s) == [k \in DOMAIN s |-> toLowerChar(s[k])]

includes(s, sub) ==
  \E k \in 0..(Len(s) - Len(sub)) : SubSeq(s, k + 1, k + Len(sub)) = sub

RECURSIVE join(_, _)
join(fields, sep) ==
  IF fields = <<>> THEN <<>>
  ELSE IF Len(fields) = 1 THEN fields[1]
  ELSE fields[1] \o sep \o join(Tail(fields), sep)

\* text.replace(/\r\n/g, "\n")
RECURSIVE replaceCRLF(_)
replaceCRLF(s) ==
  IF s = <<>> THEN <<>>
  ELSE IF Len(s) >= 2 /\ s[1] = CR /\ s[2] = LF
    THEN <<LF>> \o replaceCRLF(SubSeq(s, 3, Len(s)))
    ELSE <<s[1]>> \o replaceCRLF(Tail(s))

\* text.replace(/\r/g, "\n")
replaceCR(s) == [k \in DOMAIN s |-> IF s[k] = CR THEN LF ELSE s[k]]

normalizeLineEndings(s) == replaceCR(replaceCRLF(s))

SpeakerName == <<"s", "p", "e", "a", "k", "e", "r", " ", "n", "a", "m", "e">>
StartTime == <<"s", "t", "a", "r", "t", " ", "t", "i", "m", "e">>
EndTime == <<"e", "n", "d", " ", "t", "i", "m", "e">>

skipRowBlankOnly(fields) ==
  \/ Len(fields) = 0
  \/ trim(join(fields, <<>>)) = <<>>

\* The "Skip empty rows and header" test of the extraction loop.
skipRow(fields) ==
  LET rowText == toLowerCase(join(fields, <<COMMA>>))
  IN \/ Len(fields) = 0
     \/ trim(join(fields, <<>>)) = <<>>
     \/ includes(rowText, SpeakerName)
     \/ (includes(rowText, StartTime) /\ includes(rowText, EndTime))

\* fields[k] with the source's 0-based index; NULL stands for undefined.
fieldAt(fields, k) == IF k + 1 <= Len(fields) THEN fields[k + 1] ELSE NULL

selectColumnsSpeakerOnly(fields) ==
  IF Len(fields) >= 4 THEN
    [startTime |-> convertTime(fieldAt(fields, 1)),
     endTime |-> convertTime(fieldAt(fields, 2)),
     text |-> fieldAt(fields, 3)]
  ELSE [startTime |-> NULL, endTime |-> NULL, text |-> NULL]

\* The startTime, endTime, text the loop body selects for a row that is not
\* skipped; all three stay undefined when neither layout matches.
selectColumns(fields) ==
  LET firstColIsTime == convertTime(fieldAt(fields, 0)) # NULL
  IN IF firstColIsTime /\ Len(fields) >= 3 THEN
       [startTime |-> convertTime(fieldAt(fields, 0)),
        endTime |-> convertTime(fieldAt(fields, 1)),
        text |-> fieldAt(fields, 2)]
     ELSE IF ~firstColIsTime /\ Len(fields) >= 4 THEN
       [startTime |-> convertTime(fieldAt(fields, 1)),
        endTime |-> convertTime(fieldAt(fields, 2)),
        text |-> fieldAt(fields, 3)]
     ELSE [startTime |-> NULL, endTime |-> NULL, text |-> NULL]

rowEntriesUntrimmed(fields) ==
  IF skipRow(fields) THEN <<>>
  ELSE LET c == selectColumns(fields)
       IN IF /\ c.startTime # NULL /\ c.startTime # <<>>
             /\ c.endTime # NULL /\ c.endTime # <<>>
             /\ c.text # NULL /\ c.text # <<>>
             /\ trim(c.text) # <<>>
            THEN <<[start |-> c.startTime, end |-> c.endTime,
                    text |-> c.text]>>
            ELSE <<>>

rowEntriesBlankTextKept(fields) ==
  IF skipRow(fields) THEN <<>>
  ELSE LET c == selectColumns(fields)
       IN IF /\ c.startTime # NULL /\ c.startTime # <<>>
             /\ c.endTime # NULL /\ c.endTime # <<>>
             /\ c.text # NULL /\ c.text # <<>>
            THEN <<[start |-> c.startTime, end |-> c.endTime,
                    text |-> trim(c.text)]>>
            ELSE <<>>

\* One iteration of the extraction loop: the entries it pushes (none or one).
rowEntries(fields) ==
  IF skipRow(fields) THEN <<>>
  ELSE LET c == selectColumns(fields)
       IN IF /\ c.startTime # NULL /\ c.startTime # <<>>
             /\ c.endTime # NULL /\ c.endTime # <<>>
             /\ c.text # NULL /\ c.text # <<>>
             /\ trim(c.text) # <<>>
            THEN <<[start |-> c.startTime, end |-> c.endTime,
                    text |-> trim(c.text)]>>
            ELSE <<>>

\* The extraction loop from index k on, appended to subs.
RECURSIVE extractFrom(_, _, _)
extractFrom(rs, k, subs) ==
  IF k < Len(rs)
    THEN extractFrom(rs, k + 1, subs \o rowEntries(rs[k + 1]))
    ELSE subs

RECURSIVE closeGapsBackwards(_, _)
closeGapsBackwards(subs, k) ==
  IF k < Len(subs)
    THEN closeGapsBackwards([subs EXCEPT ![k].end = subs[k + 1].start], k + 1)
    ELSE subs

\* The "Remove gaps" loop: for (i = 1; i < subtitles.length; i++)
RECURSIVE closeGapsFrom(_, _)
closeGapsFrom(subs, k) ==
  IF k < Len(subs)
    THEN closeGapsFrom([subs EXCEPT ![k + 1].start = subs[k].end], k + 1)
    ELSE subs

gapPassAlways(subs, remove) == closeGapsFrom(subs, 1)

gapPass(subs, remove) == IF remove THEN closeGapsFrom(subs, 1) ELSE subs

Arrow == <<" ", "-", "-", ">", " ">>

\* The "Generate SRT format" loop
RECURSIVE formatFrom(_, _, _)
formatFrom(subs, k, srt) ==
  IF k < Len(subs)
    THEN LET sub == subs[k + 1]
             block == srt \o natToString(k + 1) \o <<LF>>
                          \o sub.start \o Arrow \o sub.end \o <<LF>>
                          \o sub.text \o <<LF>>
         IN formatFrom(subs, k + 1,
                       IF k < Len(subs) - 1 THEN block \o <<LF>> ELSE block)
    ELSE srt

formatSrtTrailingBlank(subs) ==
  LET srt == formatFrom(subs, 0, <<>>)
  IN IF srt = <<>> THEN srt ELSE srt \o <<LF>>

formatSrt(subs) == formatFrom(subs, 0, <<>>)

\* The options argument as the caller passes it: omitted, an object with or
\* without a removeGaps member, a boolean passed positionally, or null.
OptOmitted == [kind |-> "omitted", has |-> FALSE, val |-> FALSE]
OptEmpty == [kind |-> "object", has |-> FALSE, val |-> FALSE]
OptObject(b) == [kind |-> "object", has |-> TRUE, val |-> b]
OptBoolean(b) == [kind |-> "boolean", has |-> FALSE, val |-> b]
OptNull == [kind |-> "null", has |-> FALSE, val |-> FALSE]

destructureRemoveGapsDefaultOff(opts) ==
  IF opts.kind = "object" /\ opts.has THEN opts.val ELSE FALSE

\* const { removeGaps = true } = options, with options = {} when omitted.
\* A member read on a boolean primitive is undefined, so the default applies.
destructureRemoveGaps(opts) ==
  IF opts.kind = "object" /\ opts.has THEN opts.val ELSE TRUE

\* What a call of csvToSrt produces: the returned string, or Raised when
\* the TypeError of destructuring null options escapes.
Raised == <<"TypeError">>

\* A csvText argument that is a non-zero number: truthy, without a trim
\* method, so csvText.trim() throws a TypeError inside the try block.
NumberArg == <<"number">>

\* The message of that TypeError.
TrimNotAFunction ==
  <<"c", "s", "v", "T", "e", "x", "t", ".", "t", "r", "i", "m", " ", "i",
    "s", " ", "n", "o", "t", " ", "a", " ", "f", "u", "n", "c", "t", "i",
    "o", "n">>

\* The catch block: `Error generating SRT: ${error.message}`
ErrorPrefix ==
  <<"E", "r", "r", "o", "r", " ", "g", "e", "n", "e", "r", "a", "t", "i",
    "n", "g", " ", "S", "R", "T", ":", " ">>

errorString(message) == ErrorPrefix \o message

csvToSrt(text, opts) ==
  IF opts.kind = "null" THEN Raised
  ELSE IF text = NumberArg THEN errorString(TrimNotAFunction)
  ELSE IF text = NULL \/ text = <<>> \/ trim(text) = <<>> THEN <<>>
  ELSE formatSrt(gapPass(
         extractFrom(parseCSVRows(normalizeLineEndings(text)), 0, <<>>),
         destructureRemoveGaps(opts)))

----------------------------------------------------------------------------
(* Inputs *)

MaxParts == 5
MaxLen == 4
MaxArgs == 3
MaxChunks == 2
MaxLoads == 2
MaxClicks == 3
MaxRows == 2

SeqsUpTo(S, n) == UNION {[1..k -> S] : k \in 0..n}

\* Timecode arguments: null, and up to MaxParts components joined by ':' or
\* ';' in any mix.
Separators == {":", ";"}
TimeComps == {<<>>, <<" ">>, <<"4">>, <<"2", "9">>, <<"3", "0">>}

RECURSIVE joinWith(_, _)
joinWith(parts, seps) ==
  IF Len(parts) = 1 THEN parts[1]
  ELSE parts[1] \o <<seps[1]>> \o joinWith(Tail(parts), Tail(seps))

\* The timecode strings of exactly k components.
TimeStrings(k) ==
  {joinWith(parts, seps) :
     parts \in [1..k -> TimeComps], seps \in [1..(k - 1) -> Separators]}

\* Tokenizer texts: every string of at most MaxLen characters.
TokChars == {"a", COMMA, TAB, QUOTE, LF, CR}
TokTexts == SeqsUpTo(TokChars, MaxLen)

\* csvToSrt texts: up to MaxRows rows, each a row of raw fields, written with
\* one delimiter and one line terminator.
T1 == <<"0", ":", "0", ":", "1", ":", "0">>
T2 == <<"0", ";", "0", ";", "2", ";", "4">>
T3 == <<"0", ":", "0", ":", "3", ":", "5">>

RowSamples ==
  { <<T1, T2, <<"a">>>>,
    <<<<"S">>, T2, T3, <<" ", "b", " ">>>>,
    <<<<>>, T1, T2, <<"a">>>>,
    <<T1, T2, T3, <<"a">>>>,
    <<T1, <<"x">>, <<"a">>>>,
    <<T1, T2, <<" ">>>>,
    <<<<"x">>, <<"a">>>>,
    <<<<>>>>,
    <<<<"S", "t", "a", "r", "t", " ", "T", "i", "m", "e">>,
      <<"E", "n", "d", " ", "T", "i", "m", "e">>,
      <<"T", "e", "x", "t">>>>,
    <<T2, T3, <<QUOTE, "c", COMMA, LF, "d", QUOTE>>>>,
    <<T1, T2, <<"a">>,
      <<"S", "p", "e", "a", "k", "e", "r", " ", "N", "a", "m", "e">>>>,
    <<T1, T3, <<QUOTE, "c", CR, LF, "d", QUOTE>>>>,
    <<T2, T3, <<"s", "p", "e", "a", "k", "e", "r", " ", "n", "a", "m", "e">>>> }

Styles == { [delim |-> <<COMMA>>, term |-> <<LF>>],
            [delim |-> <<TAB>>, term |-> <<CR, LF>>],
            [delim |-> <<COMMA>>, term |-> <<CR>>] }

writeCsv(rs, style) ==
  join([k \in DOMAIN rs |-> join(rs[k], style.delim)], style.term)

\* Command lines: up to MaxArgs flags; standard input: up to MaxChunks chunks.
ArgTokens == {"--help", "-h", "--keep-gaps", "--no-gaps", "--verbose"}

ChunkA == join(<<T1, T2, <<"a">>>>, <<COMMA>>) \o <<LF>>
ChunkB == join(<<T3, T3, <<"b">>>>, <<COMMA>>)
CliChunks == {ChunkA, ChunkB, <<LF>>}

\* Texts of the input area and of uploaded files.
AppTextFour ==
  writeCsv(<< <<<<"S">>, T1, T1, <<"a">>>>, <<<<"S">>, T3, T3, <<"b">>>> >>,
           [delim |-> <<COMMA>>, term |-> <<LF>>])
AppTextThree == join(<<T1, T3, <<"a">>>>, <<COMMA>>)
AppTextSemicolon == join(<<<<"S">>, T1, T2, <<"a">>>>, <<COMMA>>)
AppTextQuotedCR ==
  join(<<<<"S">>, T1, T3, <<QUOTE, "c", CR, "d", QUOTE>>>>, <<COMMA>>)
AppTexts ==
  {<<>>, AppTextFour, AppTextThree, AppTextSemicolon, AppTextQuotedCR}

OptionsArgs ==
  {OptOmitted, OptEmpty, OptNull} \cup
  {OptObject(b) : b \in BOOLEAN} \cup {OptBoolean(b) : b \in BOOLEAN}

----------------------------------------------------------------------------
(* Initial states: each specification runs one part, the others stay idle *)

IdleTime == timeStr = NULL /\ timeRet = NotCalled

IdleTok ==
  /\ tokFn = "rows"
  /\ tokText = <<>>
  /\ tok = rowsStart
  /\ tokPc = "loop"
  /\ tokRet = <<>>

\* The text the page gives each button before any click.
CopyButtonText == "Copy"
DownloadButtonText == "Download"

IdleCli ==
  /\ argv = <<>>
  /\ stdin = <<>>
  /\ stdinPos = 0
  /\ cliPc = "idle"
  /\ cliRemoveGaps = TRUE
  /\ cliText = <<>>
  /\ cliCalls = <<>>
  /\ stdout = <<>>
  /\ stderr = <<>>
  /\ exitCode = -1

IdleApp ==
  /\ csvInputValue = <<>>
  /\ checked = TRUE
  /\ srtOutputValue = <<>>
  /\ readers = <<>>
  /\ appEvent = "none"

IdleBtn ==
  /\ clipboardApi = TRUE
  /\ copyLabel = CopyButtonText
  /\ copyPending = <<>>
  /\ copyTimers = <<>>
  /\ downloadLabel = DownloadButtonText
  /\ downloadTimers = <<>>
  /\ downloads = 0
  /\ clicks = 0

IdleFront == IdleCli /\ IdleApp /\ IdleBtn

IdleCsv ==
  /\ csvText = NULL
  /\ options = OptOmitted
  /\ pc = "idle"
  /\ removeGaps = TRUE
  /\ rows = <<>>
  /\ i = 0
  /\ subtitles = <<>>
  /\ origin = <<>>
  /\ ret = NotCalled

----------------------------------------------------------------------------
(* convertTime, applied to an argument *)

InitTime ==
  /\ \/ timeStr = NULL
     \/ \E k \in 1..MaxParts : timeStr \in TimeStrings(k)
  /\ timeRet = NotCalled
  /\ IdleTok
  /\ IdleCsv
  /\ IdleFront

ConvertTimeCall ==
  /\ timeRet = NotCalled
  /\ timeRet' = convertTime(timeStr)
  /\ UNCHANGED <<timeStr, tokVars, csvVars, frontVars>>

NextTime == ConvertTimeCall

SpecTime == InitTime /\ [][NextTime]_vars

----------------------------------------------------------------------------
(* parseCSVRows and parseCSVLine, run one loop iteration at a time *)

InitTok ==
  /\ tokFn \in {"rows", "line"}
  /\ tokText \in TokTexts
  /\ tok = IF tokFn = "rows" THEN rowsStart ELSE lineStart
  /\ tokPc = "loop"
  /\ tokRet = <<>>
  /\ IdleTime
  /\ IdleCsv
  /\ IdleFront

RowsIter ==
  /\ tokFn = "rows"
  /\ tokPc = "loop"
  /\ tok.i < Len(tokText)
  /\ tok' = rowsIter(tokText, tok)
  /\ UNCHANGED <<tokFn, tokText, tokPc, tokRet, timeVars, csvVars, frontVars>>

RowsReturn ==
  /\ tokFn = "rows"
  /\ tokPc = "loop"
  /\ tok.i >= Len(tokText)
  /\ tokRet' = rowsReturn(tok)
  /\ tokPc' = "returned"
  /\ UNCHANGED <<tokFn, tokText, tok, timeVars, csvVars, frontVars>>

LineIter ==
  /\ tokFn = "line"
  /\ tokPc = "loop"
  /\ tok.i < Len(tokText)
  /\ tok' = lineIter(tokText, tok)
  /\ UNCHANGED <<tokFn, tokText, tokPc, tokRet, timeVars, csvVars, frontVars>>

LineReturn ==
  /\ tokFn = "line"
  /\ tokPc = "loop"
  /\ tok.i >= Len(tokText)
  /\ tokRet' = lineReturn(tok)
  /\ tokPc' = "returned"
  /\ UNCHANGED <<tokFn, tokText, tok, timeVars, csvVars, frontVars>>

NextTok == RowsIter \/ RowsReturn \/ LineIter \/ LineReturn

SpecTok == InitTok /\ [][NextTok]_vars

----------------------------------------------------------------------------
(* csvToSrt, run one step of the function body at a time *)

Init ==
  /\ \/ csvText \in {NULL, NumberArg}
     \/ \E k \in 0..MaxRows : \E rs \in [1..k -> RowSamples] : \E style \in Styles :
          csvText = writeCsv(rs, style)
  /\ options \in OptionsArgs
  /\ pc = "call"
  /\ removeGaps = TRUE
  /\ rows = <<>>
  /\ i = 0
  /\ subtitles = <<>>
  /\ origin = <<>>
  /\ ret = NotCalled
  /\ IdleTime
  /\ IdleTok
  /\ IdleFront

\* Parameter default and destructuring, before the try block: null options
\* make the destructuring throw a TypeError that nothing catches.
Destructure ==
  /\ pc = "call"
  /\ IF options.kind = "null"
       THEN pc' = "raised" /\ UNCHANGED removeGaps
       ELSE pc' = "try" /\ removeGaps' = destructureRemoveGaps(options)
  /\ UNCHANGED <<csvText, options, rows, i, subtitles, origin, ret,
                 timeVars, tokVars, frontVars>>

ReturnEmptyNoNullTest ==
  /\ pc = "try"
  /\ (csvText = NULL \/ csvText = <<>> \/ trim(csvText) = <<>>)
  /\ IF csvText = NULL
       THEN ret' = errorString(TrimNotAFunction) /\ pc' = "caught"
       ELSE ret' = <<>> /\ pc' = "done"
  /\ UNCHANGED <<csvText, options, removeGaps, rows, i, subtitles, origin,
                 timeVars, tokVars, frontVars>>

\* if (!csvText || csvText.trim() === "") return "";
ReturnEmpty ==
  /\ pc = "try"
  /\ (csvText = NULL \/ csvText = <<>> \/ trim(csvText) = <<>>)
  /\ ret' = <<>>
  /\ pc' = "done"
  /\ UNCHANGED <<csvText, options, removeGaps, rows, i, subtitles, origin,
                 timeVars, tokVars, frontVars>>

\* csvText.trim() throws on an argument that is not a string; the catch
\* block returns the error text.
CatchError ==
  /\ pc = "try"
  /\ csvText = NumberArg
  /\ ret' = errorString(TrimNotAFunction)
  /\ pc' = "caught"
  /\ UNCHANGED <<csvText, options, removeGaps, rows, i, subtitles, origin,
                 timeVars, tokVars, frontVars>>

\* Line-ending normalisation and parseCSVRows
ParseRows ==
  /\ pc = "try"
  /\ csvText # NumberArg
  /\ ~(csvText = NULL \/ csvText = <<>> \/ trim(csvText) = <<>>)
  /\ rows' = parseCSVRows(normalizeLineEndings(csvText))
  /\ i' = 0
  /\ pc' = "loop"
  /\ UNCHANGED <<csvText, options, removeGaps, subtitles, origin, ret,
                 timeVars, tokVars, frontVars>>

ExtractRowStopAtSkipped ==
  /\ pc = "loop"
  /\ i < Len(rows)
  /\ LET pushed == rowEntries(rows[i + 1])
     IN /\ subtitles' = subtitles \o pushed
        /\ origin' = origin \o [k \in DOMAIN pushed |-> i]
        /\ i' = IF pushed = <<>> THEN Len(rows) ELSE i + 1
  /\ UNCHANGED <<csvText, options, pc, removeGaps, rows, ret,
                 timeVars, tokVars, frontVars>>

\* One iteration of the extraction loop
ExtractRow ==
  /\ pc = "loop"
  /\ i < Len(rows)
  /\ LET pushed == rowEntries(rows[i + 1])
     IN /\ subtitles' = subtitles \o pushed
        /\ origin' = origin \o [k \in DOMAIN pushed |-> i]
  /\ i' = i + 1
  /\ UNCHANGED <<csvText, options, pc, removeGaps, rows, ret,
                 timeVars, tokVars, frontVars>>

\* The extraction loop ends; the gap-removal pass runs if enabled
RemoveGaps ==
  /\ pc = "loop"
  /\ i >= Len(rows)
  /\ subtitles' = gapPass(subtitles, removeGaps)
  /\ pc' = "format"
  /\ UNCHANGED <<csvText, options, removeGaps, rows, i, origin, ret,
                 timeVars, tokVars, frontVars>>

\* The SRT text is generated and returned
ReturnSrt ==
  /\ pc = "format"
  /\ ret' = formatSrt(subtitles)
  /\ pc' = "done"
  /\ UNCHANGED <<csvText, options, removeGaps, rows, i, subtitles, origin,
                 timeVars, tokVars, frontVars>>

Next ==
  \/ Destructure
  \/ ReturnEmpty
  \/ CatchError
  \/ ParseRows
  \/ ExtractRow
  \/ RemoveGaps
  \/ ReturnSrt

Spec == Init /\ [][Next]_vars

----------------------------------------------------------------------------
(* The command-line tool (cli.ts) *)

\* parseArgs with the options help (short h), keep-gaps and no-gaps, all
\* boolean, strict false: a value is true when its flag is given.
parseArgs(args) ==
  [help |-> \E k \in DOMAIN args : args[k] \in {"--help", "-h"},
   keepGaps |-> \E k \in DOMAIN args : args[k] = "--keep-gaps",
   noGaps |-> \E k \in DOMAIN args : args[k] = "--no-gaps"]

\* The fixed usage text printed by console.log; no conversion result equals it.
UsageText == <<"usage">>

\* What the catch handler of main prints: "Error:", error.message
ErrorLine == <<"Error:">>

InitCli ==
  /\ \E k \in 0..MaxArgs : argv \in [1..k -> ArgTokens]
  /\ \E k \in 0..MaxChunks : stdin \in [1..k -> CliChunks]
  /\ stdinPos = 0
  /\ cliPc = "start"
  /\ cliRemoveGaps = TRUE
  /\ cliText = <<>>
  /\ cliCalls = <<>>
  /\ stdout = <<>>
  /\ stderr = <<>>
  /\ exitCode = -1
  /\ IdleTime
  /\ IdleTok
  /\ IdleCsv
  /\ IdleApp
  /\ IdleBtn

CliStartHelpContinues ==
  /\ cliPc = "start"
  /\ LET values == parseArgs(argv)
     IN /\ stdout' = IF values.help THEN Append(stdout, UsageText) ELSE stdout
        /\ cliRemoveGaps' = IF values.keepGaps THEN FALSE ELSE TRUE
        /\ cliPc' = "reading"
        /\ UNCHANGED exitCode
  /\ UNCHANGED <<argv, stdin, stdinPos, cliText, cliCalls, stderr,
                 timeVars, tokVars, csvVars, appVars, btnVars>>

CliStartNoGapsWins ==
  /\ cliPc = "start"
  /\ LET values == parseArgs(argv)
     IN IF values.help
          THEN /\ stdout' = Append(stdout, UsageText)
               /\ exitCode' = 0
               /\ cliPc' = "exited"
               /\ UNCHANGED cliRemoveGaps
          ELSE /\ cliRemoveGaps' =
                    IF values.keepGaps /\ ~values.noGaps THEN FALSE ELSE TRUE
               /\ cliPc' = "reading"
               /\ UNCHANGED <<stdout, exitCode>>
  /\ UNCHANGED <<argv, stdin, stdinPos, cliText, cliCalls, stderr,
                 timeVars, tokVars, csvVars, appVars, btnVars>>

\* main up to its first await: the arguments are parsed; with help the usage
\* text is printed and the process exits with 0; otherwise removeGaps is set
\* and the read of standard input starts.
CliStart ==
  /\ cliPc = "start"
  /\ LET values == parseArgs(argv)
     IN IF values.help
          THEN /\ stdout' = Append(stdout, UsageText)
               /\ exitCode' = 0
               /\ cliPc' = "exited"
               /\ UNCHANGED cliRemoveGaps
          ELSE /\ cliRemoveGaps' = IF values.keepGaps THEN FALSE ELSE TRUE
               /\ cliPc' = "reading"
               /\ UNCHANGED <<stdout, exitCode>>
  /\ UNCHANGED <<argv, stdin, stdinPos, cliText, cliCalls, stderr,
                 timeVars, tokVars, csvVars, appVars, btnVars>>

\* text(process.stdin) receives the next chunk
CliReadChunk ==
  /\ cliPc = "reading"
  /\ stdinPos < Len(stdin)
  /\ cliText' = cliText \o stdin[stdinPos + 1]
  /\ stdinPos' = stdinPos + 1
  /\ UNCHANGED <<argv, stdin, cliPc, cliRemoveGaps, cliCalls, stdout, stderr,
                 exitCode, timeVars, tokVars, csvVars, appVars, btnVars>>

\* Standard input has ended: main resumes, converts, writes the result, and
\* the process ends with status 0.
CliConvert ==
  /\ cliPc = "reading"
  /\ stdinPos = Len(stdin)
  /\ cliCalls' = Append(cliCalls, [text |-> cliText,
                                   options |-> OptObject(cliRemoveGaps)])
  /\ stdout' = Append(stdout, csvToSrt(cliText, OptObject(cliRemoveGaps)))
  /\ exitCode' = 0
  /\ cliPc' = "exited"
  /\ UNCHANGED <<argv, stdin, stdinPos, cliRemoveGaps, cliText, stderr,
                 timeVars, tokVars, csvVars, appVars, btnVars>>

\* The read of standard input fails: main rejects, the catch handler prints
\* the error and exits with 1.
CliStdinError ==
  /\ cliPc = "reading"
  /\ stderr' = Append(stderr, ErrorLine)
  /\ exitCode' = 1
  /\ cliPc' = "exited"
  /\ UNCHANGED <<argv, stdin, stdinPos, cliRemoveGaps, cliText, cliCalls,
                 stdout, timeVars, tokVars, csvVars, appVars, btnVars>>

NextCli ==
  \/ CliStart
  \/ CliReadChunk
  \/ CliConvert
  \/ CliStdinError

SpecCli == InitCli /\ [][NextCli]_vars

----------------------------------------------------------------------------
(* The browser front end (app.js): its own conversion functions *)

\* convertTime of app.js: the components are split at ':' only.
appConvertTime(s) ==
  IF s = NULL \/ s = <<>> \/ trim(s) = <<>> THEN NULL
  ELSE LET parts == split(trim(s), {":"})
       IN IF Len(parts) # 4 THEN NULL
          ELSE LET hours == padStart(parts[1], 2, "0")
                   minutes == padStart(parts[2], 2, "0")
                   seconds == padStart(parts[3], 2, "0")
                   frames == parseInt(parts[4])
                   milliseconds == framesToMilliseconds(frames)
                   ms == padStart(numToString(milliseconds), 3, "0")
               IN hours \o <<":">> \o minutes \o <<":">> \o seconds
                    \o <<",">> \o ms

\* parseCSVRows of app.js: statement for statement the loop and the flush
\* of the library's parseCSVRows.
appParseCSVRows(text) == rowsReturn(rowsLoop(text, rowsStart))

\* One iteration of the extraction loop of app.js: only "speaker name"
\* marks a header, and only rows of at least four fields give an entry.
appRowEntries(fields) ==
  IF \/ Len(fields) = 0
     \/ trim(join(fields, <<>>)) = <<>>
     \/ includes(toLowerCase(join(fields, <<COMMA>>)), SpeakerName)
    THEN <<>>
  ELSE IF Len(fields) >= 4 THEN
    LET startTime == appConvertTime(fieldAt(fields, 1))
        endTime == appConvertTime(fieldAt(fields, 2))
        text == fieldAt(fields, 3)
    IN IF /\ startTime # NULL /\ startTime # <<>>
          /\ endTime # NULL /\ endTime # <<>>
          /\ text # NULL /\ text # <<>>
          /\ trim(text) # <<>>
         THEN <<[start |-> startTime, end |-> endTime, text |-> trim(text)]>>
         ELSE <<>>
  ELSE <<>>

RECURSIVE appExtractFrom(_, _, _)
appExtractFrom(rs, k, subs) ==
  IF k < Len(rs)
    THEN appExtractFrom(rs, k + 1, subs \o appRowEntries(rs[k + 1]))
    ELSE subs

\* csvToSrt(csvText, removeGaps) of app.js: no line-ending normalisation
\* before tokenizing; the gap loop and the SRT loop are those of the library.
appCsvToSrt(text, remove) ==
  IF text = NULL \/ text = <<>> \/ trim(text) = <<>> THEN <<>>
  ELSE formatSrt(gapPass(appExtractFrom(appParseCSVRows(text), 0, <<>>),
                         remove))

\* The sequence without its k-th element.
removeAt(s, k) == SubSeq(s, 1, k - 1) \o SubSeq(s, k + 1, Len(s))

----------------------------------------------------------------------------
(* The browser front end: conversion on every edit, checkbox change, upload *)

InitApp ==
  /\ csvInputValue = <<>>
  /\ checked \in BOOLEAN
  /\ srtOutputValue = <<>>
  /\ readers = <<>>
  /\ appEvent = "none"
  /\ IdleTime
  /\ IdleTok
  /\ IdleCsv
  /\ IdleCli
  /\ IdleBtn

\* The user edits the input area; the input listener converts.
InputEvent ==
  /\ \E text \in AppTexts :
       /\ csvInputValue' = text
       /\ srtOutputValue' = appCsvToSrt(text, checked)
  /\ appEvent' = "input"
  /\ UNCHANGED <<checked, readers,
                 timeVars, tokVars, csvVars, cliVars, btnVars>>

\* The user toggles the checkbox; the change listener converts again.
CheckboxChange ==
  /\ checked' = ~checked
  /\ srtOutputValue' = appCsvToSrt(csvInputValue, checked')
  /\ appEvent' = "change"
  /\ UNCHANGED <<csvInputValue, readers,
                 timeVars, tokVars, csvVars, cliVars, btnVars>>

\* The change listener of the file input: no file, a file that is not CSV
\* (alert), or a CSV file whose read is started.
FileChosen ==
  /\ Len(readers) < MaxLoads
  /\ \E present \in BOOLEAN, isCsv \in BOOLEAN, content \in AppTexts :
       IF present /\ isCsv
         THEN readers' = Append(readers, content) /\ appEvent' = "file"
         ELSE UNCHANGED readers /\ appEvent' = "nofile"
  /\ UNCHANGED <<csvInputValue, checked, srtOutputValue,
                 timeVars, tokVars, csvVars, cliVars, btnVars>>

FileLoadedNoConversion ==
  /\ \E k \in DOMAIN readers :
       /\ csvInputValue' = readers[k]
       /\ readers' = removeAt(readers, k)
  /\ appEvent' = "load"
  /\ UNCHANGED <<checked, srtOutputValue,
                 timeVars, tokVars, csvVars, cliVars, btnVars>>

\* reader.onload of one of the reads in flight
FileLoaded ==
  /\ \E k \in DOMAIN readers :
       /\ csvInputValue' = readers[k]
       /\ srtOutputValue' = appCsvToSrt(readers[k], checked)
       /\ readers' = removeAt(readers, k)
  /\ appEvent' = "load"
  /\ UNCHANGED <<checked, timeVars, tokVars, csvVars, cliVars, btnVars>>

NextApp ==
  \/ InputEvent
  \/ CheckboxChange
  \/ FileChosen
  \/ FileLoaded

SpecApp == InitApp /\ [][NextApp]_vars

----------------------------------------------------------------------------
(* The browser front end: the copy and download buttons *)

InitButtons ==
  /\ csvInputValue \in AppTexts
  /\ checked \in BOOLEAN
  /\ srtOutputValue = appCsvToSrt(csvInputValue, checked)
  /\ readers = <<>>
  /\ appEvent = "input"
  /\ clipboardApi \in BOOLEAN
  /\ copyLabel = CopyButtonText
  /\ copyPending = <<>>
  /\ copyTimers = <<>>
  /\ downloadLabel = DownloadButtonText
  /\ downloadTimers = <<>>
  /\ downloads = 0
  /\ clicks = 0
  /\ IdleTime
  /\ IdleTok
  /\ IdleCsv
  /\ IdleCli

\* Click on the copy button, up to the await or, without the Clipboard API,
\* to the end of the handler: originalText is the label shown at the click.
CopyClick ==
  /\ clicks < MaxClicks
  /\ clicks' = clicks + 1
  /\ IF clipboardApi
       THEN /\ copyPending' = Append(copyPending, copyLabel)
            /\ UNCHANGED <<copyLabel, copyTimers>>
       ELSE /\ \E ok \in BOOLEAN :
                 copyLabel' = IF ok THEN "Copied!" ELSE "Failed to copy"
            /\ copyTimers' = Append(copyTimers, copyLabel)
            /\ UNCHANGED copyPending
  /\ UNCHANGED <<clipboardApi, downloadLabel, downloadTimers, downloads,
                 timeVars, tokVars, csvVars, cliVars, appVars>>

\* writeText of a waiting click settles: the handler resumes, shows the
\* feedback and sets the 2-second timer.
CopySettled ==
  /\ \E k \in DOMAIN copyPending, ok \in BOOLEAN :
       /\ copyLabel' = IF ok THEN "Copied!" ELSE "Failed to copy"
       /\ copyTimers' = Append(copyTimers, copyPending[k])
       /\ copyPending' = removeAt(copyPending, k)
  /\ UNCHANGED <<clipboardApi, downloadLabel, downloadTimers, downloads,
                 clicks, timeVars, tokVars, csvVars, cliVars, appVars>>

\* The oldest timer of the copy button fires.
CopyTimerFires ==
  /\ copyTimers # <<>>
  /\ copyLabel' = Head(copyTimers)
  /\ copyTimers' = Tail(copyTimers)
  /\ UNCHANGED <<clipboardApi, copyPending, downloadLabel, downloadTimers,
                 downloads, clicks,
                 timeVars, tokVars, csvVars, cliVars, appVars>>

\* Click on the download button: an alert when there is nothing to save,
\* otherwise the download, the feedback and the 2-second timer.
DownloadClick ==
  /\ clicks < MaxClicks
  /\ clicks' = clicks + 1
  /\ IF srtOutputValue = <<>> \/ trim(srtOutputValue) = <<>>
       THEN UNCHANGED <<downloadLabel, downloadTimers, downloads>>
       ELSE /\ downloads' = downloads + 1
            /\ downloadTimers' = Append(downloadTimers, downloadLabel)
            /\ downloadLabel' = "Downloaded!"
  /\ UNCHANGED <<clipboardApi, copyLabel, copyPending, copyTimers,
                 timeVars, tokVars, csvVars, cliVars, appVars>>

\* The oldest timer of the download button fires.
DownloadTimerFires ==
  /\ downloadTimers # <<>>
  /\ downloadLabel' = Head(downloadTimers)
  /\ downloadTimers' = Tail(downloadTimers)
  /\ UNCHANGED <<clipboardApi, copyLabel, copyPending, copyTimers,
                 downloads, clicks,
                 timeVars, tokVars, csvVars, cliVars, appVars>>

NextButtons ==
  \/ CopyClick
  \/ CopySettled
  \/ CopyTimerFires
  \/ DownloadClick
  \/ DownloadTimerFires

SpecButtons == InitButtons /\ [][NextButtons]_vars

----------------------------------------------------------------------------
(* Properties *)

Returned == pc \in {"format", "done"} /\ rows # <<>>

\* The row an entry was pushed from.
SourceRow(k) == rows[origin[k] + 1]

IsTimecode(f) == convertTime(f) # NULL

\* The start and end a row's own fields convert to, by the layout of the row.
OwnStart(f) == IF IsTimecode(f[1]) THEN convertTime(f[1]) ELSE convertTime(f[2])
OwnEnd(f) == IF IsTimecode(f[1]) THEN convertTime(f[2]) ELSE convertTime(f[3])

\* C1: every iteration of the extraction loop classifies its row on its own.
\* It pushes at most one entry and leaves the earlier entries alone; an entry
\* is pushed only from a row whose field 0 converts and that has at least 3
\* fields, and is then (field 0, field 1, field 2), or from a row whose field
\* 0 does not convert and that has at least 4 fields, and is then (field 1,
\* field 2, field 3), the speaker in field 0 discarded; times are converted
\* and the text is trimmed.
C1_RowClassifiedOnItsOwn ==
  [][(pc = "loop" /\ i' = i + 1) =>
       LET f == rows[i + 1]
           n == Len(subtitles)
       IN /\ Len(subtitles') \in {n, n + 1}
          /\ SubSeq(subtitles', 1, n) = subtitles
          /\ Len(subtitles') = n + 1 =>
               LET e == subtitles'[n + 1]
               IN \/ /\ IsTimecode(f[1]) /\ Len(f) >= 3
                     /\ e = [start |-> convertTime(f[1]),
                             end |-> convertTime(f[2]), text |-> trim(f[3])]
                  \/ /\ ~IsTimecode(f[1]) /\ Len(f) >= 4
                     /\ e = [start |-> convertTime(f[2]),
                             end |-> convertTime(f[3]), text |-> trim(f[4])]
    ]_vars

\* A 4-column row followed by a 3-column row, both extracted.
C1_Witness ==
  /\ pc = "format"
  /\ Len(subtitles) = 2
  /\ ~IsTimecode(SourceRow(1)[1]) /\ Len(SourceRow(1)) = 4
  /\ IsTimecode(SourceRow(2)[1]) /\ Len(SourceRow(2)) = 3

IsDigits(s) == s # <<>> /\ \A k \in DOMAIN s : s[k] \in Digits

\* s left-padded with zeros to n characters
ZeroPadded(s, n) ==
  IF Len(s) >= n THEN s ELSE [k \in 1..(n - Len(s)) |-> "0"] \o s

\* The integer nearest to f * 1000 / 30
NearestMs(f) ==
  CHOOSE m \in 0..(34 * f) : 60 * m - 30 <= 2000 * f /\ 2000 * f < 60 * m + 30

\* C2: for four digit-string components H, M, S, F separated by ':' or ';'
\* in any mix, convertTime returns H, M, S zero-padded to two digits and
\* joined by ':', then ',', then round(F * 1000 / 30) zero-padded to three.
C2_DigitComponentsConverted ==
  timeRet # NotCalled /\ timeStr # NULL =>
    \A p1, p2, p3 \in DOMAIN timeStr :
      LET H == SubSeq(timeStr, 1, p1 - 1)
          M == SubSeq(timeStr, p1 + 1, p2 - 1)
          S == SubSeq(timeStr, p2 + 1, p3 - 1)
          F == SubSeq(timeStr, p3 + 1, Len(timeStr))
      IN (/\ p1 < p2 /\ p2 < p3
          /\ \A p \in {p1, p2, p3} : timeStr[p] \in {":", ";"}
          /\ IsDigits(H) /\ IsDigits(M) /\ IsDigits(S) /\ IsDigits(F))
         => timeRet = ZeroPadded(H, 2) \o <<":">> \o ZeroPadded(M, 2) \o <<":">>
                        \o ZeroPadded(S, 2) \o <<",">>
                        \o ZeroPadded(natToString(NearestMs(digitsValue(F, 0))), 3)

\* 4;29:4:29 has been converted to 04:29:04,967.
C2_Witness ==
  /\ timeStr = <<"4", ";", "2", "9", ":", "4", ":", "2", "9">>
  /\ timeRet = <<"0", "4", ":", "2", "9", ":", "0", "4", ",", "9", "6", "7">>

DelimiterCount(s) == Cardinality({k \in DOMAIN s : s[k] \in {":", ";"}})

IsBlank(s) == \A k \in DOMAIN s : s[k] \in WhiteSpace

\* C3: convertTime returns null exactly when its argument is null, empty,
\* whitespace-only, or does not have exactly 4 components separated by ':'
\* or ';'; otherwise it returns a string.
C3_NullExactlyWhenInvalid ==
  timeRet # NotCalled =>
    (timeRet = NULL <=>
       (timeStr = NULL \/ IsBlank(timeStr) \/ DelimiterCount(timeStr) # 3))

\* A five-component argument has been rejected.
C3_Witness == timeRet = NULL /\ timeStr # NULL /\ DelimiterCount(timeStr) = 4

\* Two digits, ':', two digits, ':', two digits, ',', three digits
HasSrtShape(s) ==
  /\ Len(s) = 12
  /\ \A k \in {1, 2, 4, 5, 7, 8, 10, 11, 12} : s[k] \in Digits
  /\ s[3] = ":" /\ s[6] = ":" /\ s[9] = ","

\* C4: convertTime returns null or a string of the shape HH:MM:SS,mmm.
C4_NullOrSrtShape ==
  timeRet # NotCalled => (timeRet = NULL \/ HasSrtShape(timeRet))

SrtBlock(subs, k) ==
  natToString(k) \o <<LF>> \o subs[k].start \o Arrow \o subs[k].end \o <<LF>>
    \o subs[k].text \o <<LF>>

\* C5: the returned text is the blocks of entries 1..N in order, one blank
\* line between consecutive blocks and none after the last; no entry yields
\* the empty string.
C5_SrtTextIsNumberedBlocks ==
  pc = "done" =>
    ret = join([k \in DOMAIN subtitles |-> SrtBlock(subtitles, k)], <<LF>>)

\* Two entries have been serialized.
C5_Witness == pc = "done" /\ Len(subtitles) = 2 /\ ret # <<>>

\* C6: with removeGaps true, after the gap pass every entry but the first
\* starts at the end of the entry before it, the first keeps its converted
\* start, and ends, texts and the number of entries are those extracted,
\* which are those of removeGaps false.
C6_OnlyStartsRewritten ==
  Returned /\ removeGaps =>
    LET base == extractFrom(rows, 0, <<>>)
    IN /\ Len(subtitles) = Len(base)
       /\ \A k \in DOMAIN subtitles :
            /\ subtitles[k].end = base[k].end
            /\ subtitles[k].text = base[k].text
            /\ subtitles[k].start =
                 IF k = 1 THEN base[1].start ELSE subtitles[k - 1].end

\* A gap has been closed: the second entry no longer starts where its row says.
C6_Witness ==
  /\ Returned /\ removeGaps
  /\ Len(subtitles) = 2
  /\ subtitles[2].start # OwnStart(SourceRow(2))

\* C7: with removeGaps false every entry's start and end are the converted
\* timecodes of its own source row.
C7_GapsKept ==
  Returned /\ options = OptObject(FALSE) =>
    \A k \in DOMAIN subtitles :
      /\ subtitles[k].start = OwnStart(SourceRow(k))
      /\ subtitles[k].end = OwnEnd(SourceRow(k))

\* Two entries with a gap between them have been kept as they are.
C7_Witness ==
  /\ pc = "done" /\ options = OptObject(FALSE)
  /\ Len(subtitles) = 2
  /\ subtitles[2].start # subtitles[1].end

\* C8: with the boolean false passed positionally as the second argument the
\* second and later entries keep their own converted start times.
C8_PositionalFalseKeepsGaps ==
  Returned /\ options = OptBoolean(FALSE) =>
    \A k \in DOMAIN subtitles : subtitles[k].start = OwnStart(SourceRow(k))

\* C9: with the options argument omitted, or without a removeGaps member,
\* the call returns what it returns with removeGaps true.
C9_GapRemovalByDefault ==
  pc = "done" /\ options \in {OptOmitted, OptEmpty} =>
    /\ removeGaps
    /\ ret = csvToSrt(csvText, OptObject(TRUE))

\* A call without options has closed a gap.
C9_Witness ==
  /\ pc = "done" /\ options = OptOmitted
  /\ Len(subtitles) = 2
  /\ subtitles[2].start # OwnStart(SourceRow(2))

\* C10: in both tokenizers a comma or a tab read outside a quoted field ends
\* the current field, and one read inside a quoted field is appended to the
\* field and splits nothing; so ",," is three empty fields and a quoted
\* "a," is one field.
C10_DelimiterSplitsOnlyOutsideQuotes ==
  [][/\ (tok' # tok /\ charAt(tokText, tok.i) \in {COMMA, TAB}) =>
          IF tokFn = "rows"
            THEN IF tok.inQuotes
                   THEN /\ tok'.currentRow = tok.currentRow
                        /\ tok'.currentField =
                             Append(tok.currentField, charAt(tokText, tok.i))
                   ELSE /\ tok'.currentRow =
                             Append(tok.currentRow, tok.currentField)
                        /\ tok'.currentField = <<>>
            ELSE IF tok.inQuotes
                   THEN /\ tok'.fields = tok.fields
                        /\ tok'.current =
                             Append(tok.current, charAt(tokText, tok.i))
                   ELSE /\ tok'.fields = Append(tok.fields, tok.current)
                        /\ tok'.current = <<>>
     /\ (tokPc' = "returned" /\ tokText = <<COMMA, COMMA>>) =>
          tokRet' = IF tokFn = "rows" THEN <<<<<<>>, <<>>, <<>>>>>>
                                      ELSE <<<<>>, <<>>, <<>>>>
     /\ (tokPc' = "returned" /\ tokText = <<QUOTE, "a", COMMA, QUOTE>>) =>
          tokRet' = IF tokFn = "rows" THEN <<<<<<"a", COMMA>>>>>>
                                      ELSE <<<<"a", COMMA>>>>
    ]_vars

\* parseCSVLine has returned a field that holds a quoted comma.
C10_Witness ==
  /\ tokFn = "line"
  /\ tokPc = "returned"
  /\ \E k \in DOMAIN tokRet : \E j \in DOMAIN tokRet[k] : tokRet[k][j] = COMMA

\* The field buffer and the fields pushed so far, under either tokenizer.
Buffer(st) == IF tokFn = "rows" THEN st.currentField ELSE st.current
Pushed(st) == IF tokFn = "rows" THEN <<st.rows, st.currentRow>> ELSE st.fields

\* C11: in both tokenizers a double quote read inside a quoted field and
\* followed by another double quote adds one double quote to the field,
\* consumes both and stays inside the quoted field; any other double quote
\* toggles the inside-quotes flag, consumes one character and adds nothing;
\* neither pushes a field. So four double quotes are one field holding one.
C11_EscapedQuoteAndToggle ==
  [][/\ (tok' # tok /\ charAt(tokText, tok.i) = QUOTE) =>
          /\ Pushed(tok') = Pushed(tok)
          /\ IF tok.inQuotes /\ charAt(tokText, tok.i + 1) = QUOTE
               THEN /\ Buffer(tok') = Append(Buffer(tok), QUOTE)
                    /\ tok'.inQuotes
                    /\ tok'.i = tok.i + 2
               ELSE /\ Buffer(tok') = Buffer(tok)
                    /\ tok'.inQuotes = ~tok.inQuotes
                    /\ tok'.i = tok.i + 1
     /\ (tokPc' = "returned" /\ tokText = <<QUOTE, QUOTE, QUOTE, QUOTE>>) =>
          tokRet' = IF tokFn = "rows" THEN <<<<<<QUOTE>>>>>> ELSE <<<<QUOTE>>>>
    ]_vars

\* An escaped quote has been read: the tokenizer is inside a quoted field
\* whose buffer holds a double quote.
C11_Witness ==
  /\ tokPc = "loop"
  /\ tok.inQuotes
  /\ \E k \in DOMAIN Buffer(tok) : Buffer(tok)[k] = QUOTE

\* C12: in parseCSVRows a line break read inside a quoted field is appended
\* to the field and ends no row; one read outside quotes is not kept and is
\* the only thing that ends a row before the end of the text. parseCSVLine
\* knows no rows: it appends every line break to the field. So a quoted line
\* break is one row of one field in parseCSVRows.
C12_QuotedLineBreakKept ==
  [][/\ (tokFn = "rows" /\ tok' # tok) =>
          LET char == charAt(tokText, tok.i)
          IN /\ (char \in {LF, CR} /\ tok.inQuotes) =>
                  /\ tok'.currentField = Append(tok.currentField, char)
                  /\ tok'.currentRow = tok.currentRow
                  /\ tok'.rows = tok.rows
                  /\ tok'.i = tok.i + 1
             /\ (char \in {LF, CR} /\ ~tok.inQuotes) =>
                  /\ tok'.currentField = <<>>
                  /\ tok'.currentRow = <<>>
             /\ tok'.rows # tok.rows => (char \in {LF, CR} /\ ~tok.inQuotes)
     /\ (tokFn = "line" /\ tok' # tok /\ charAt(tokText, tok.i) \in {LF, CR}) =>
          /\ tok'.current = Append(tok.current, charAt(tokText, tok.i))
          /\ tok'.fields = tok.fields
     /\ (tokFn = "rows" /\ tokPc' = "returned"
           /\ tokText = <<QUOTE, "a", LF, QUOTE>>) =>
          tokRet' = <<<<<<"a", LF>>>>>>
    ]_vars

\* parseCSVRows has returned a single row although a line break came before
\* the last character of the text: the break lay inside a quoted field.
C12_Witness ==
  /\ tokFn = "rows"
  /\ tokPc = "returned"
  /\ Len(tokRet) = 1
  /\ \E k \in 1..(Len(tokText) - 2) : tokText[k] = LF
  /\ \E f \in DOMAIN tokRet[1] : \E j \in DOMAIN tokRet[1][f] : tokRet[1][f][j] = LF

NonEmpty(s) == s # <<>>

\* The lines of a text that hold at least one character, in order.
NonEmptyLines(text) == SelectSeq(split(text, {LF, CR}), NonEmpty)

\* C13: every row parseCSVRows returns has at least one field, and a row of
\* one field has a non-empty field; at a terminator outside quotes a row is
\* emitted exactly when a field or a non-empty buffer has accumulated; so
\* for a text without quotes the rows are its non-empty lines, each split
\* at commas and tabs, and empty lines add nothing.
C13_NoRowFromEmptyLine ==
  [][/\ (tokFn = "rows" /\ tok' # tok /\ ~tok.inQuotes
           /\ charAt(tokText, tok.i) \in {LF, CR}) =>
          tok'.rows =
            IF tok.currentField # <<>> \/ Len(tok.currentRow) > 0
              THEN Append(tok.rows, Append(tok.currentRow, tok.currentField))
              ELSE tok.rows
     /\ (tokFn = "rows" /\ tokPc' = "returned") =>
          /\ \A r \in DOMAIN tokRet' :
               /\ Len(tokRet'[r]) >= 1
               /\ Len(tokRet'[r]) = 1 => tokRet'[r][1] # <<>>
          /\ (\A k \in DOMAIN tokText : tokText[k] # QUOTE) =>
               tokRet' = [r \in DOMAIN NonEmptyLines(tokText) |->
                            split(NonEmptyLines(tokText)[r], {COMMA, TAB})]
    ]_vars

\* Two data lines with an empty line between them have given two rows.
C13_Witness ==
  /\ tokFn = "rows"
  /\ tokPc = "returned"
  /\ tokText = <<"a", LF, LF, "a">>
  /\ tokRet = <<<<<<"a">>>>, <<<<"a">>>>>>

\* The number of quote characters of a text before position k.
RECURSIVE QuotesBefore(_, _)
QuotesBefore(text, k) ==
  IF k <= 1 THEN 0
  ELSE QuotesBefore(text, k - 1) + (IF text[k - 1] = QUOTE THEN 1 ELSE 0)

\* No carriage return of the text lies between an opening quote and its
\* closing quote.
NoQuotedCR(text) ==
  \A k \in DOMAIN text : text[k] = CR => QuotesBefore(text, k) % 2 = 0

\* C14: outside quotes a line feed, a carriage return followed by a line
\* feed, and a lone carriage return each end the row, the pair being
\* consumed as one terminator; so for a text with no carriage return inside
\* quotes parseCSVRows returns the rows of the text with every CRLF and
\* every lone CR replaced by LF.
C14_LineEndingsEquivalent ==
  [][/\ (tokFn = "rows" /\ tok' # tok /\ ~tok.inQuotes
           /\ charAt(tokText, tok.i) \in {LF, CR}) =>
          /\ tok'.currentRow = <<>>
          /\ tok'.currentField = <<>>
          /\ Len(tok'.rows) <= Len(tok.rows) + 1
          /\ tok'.i = IF charAt(tokText, tok.i) = CR
                         /\ charAt(tokText, tok.i + 1) = LF
                        THEN tok.i + 2 ELSE tok.i + 1
     /\ (tokFn = "rows" /\ tokPc' = "returned" /\ NoQuotedCR(tokText)) =>
          tokRet' = parseCSVRows(normalizeLineEndings(tokText))
    ]_vars

\* A text whose two lines are separated by CRLF has given two rows.
C14_Witness ==
  /\ tokFn = "rows"
  /\ tokPc = "returned"
  /\ tokText = <<"a", CR, LF, "a">>
  /\ tokRet = <<<<<<"a">>>>, <<<<"a">>>>>>

\* The text without its last n characters.
DropLast(text, n) == SubSeq(text, 1, Len(text) - n)

\* The text ends with a line terminator that lies outside quotes.
EndsWithTerminator(text) ==
  /\ text # <<>>
  /\ text[Len(text)] \in {LF, CR}
  /\ QuotesBefore(text, Len(text)) % 2 = 0

\* C15: when the input is exhausted parseCSVRows appends the accumulated
\* fields and field buffer as a last row, whether or not a quote is still
\* open, and adds nothing when nothing has accumulated; a text ending with
\* LF, CR or CRLF outside quotes gives the rows of the text without it.
C15_FlushAtEndOfInput ==
  (tokFn = "rows" /\ tokPc = "returned") =>
    /\ tokRet =
         IF tok.currentField # <<>> \/ Len(tok.currentRow) > 0
           THEN Append(tok.rows, Append(tok.currentRow, tok.currentField))
           ELSE tok.rows
    /\ EndsWithTerminator(tokText) =>
         /\ tokRet = parseCSVRows(DropLast(tokText, 1))
         /\ (Len(tokText) >= 2 /\ tokText[Len(tokText)] = LF
               /\ tokText[Len(tokText) - 1] = CR) =>
              tokRet = parseCSVRows(DropLast(tokText, 2))

\* A text ending inside a quoted field that was never closed, with a field
\* before it, has been returned as one row of two fields.
C15_Witness ==
  /\ tokFn = "rows"
  /\ tokPc = "returned"
  /\ tok.inQuotes
  /\ tokText = <<"a", COMMA, QUOTE, "a">>
  /\ tokRet = <<<<<<"a">>, <<"a">>>>>>

\* The row, its fields joined by commas and lowercased, contains "speaker
\* name", or contains both "start time" and "end time".
IsHeaderRow(fields) ==
  LET lower == toLowerCase(join(fields, <<COMMA>>))
  IN \/ includes(lower, <<"s", "p", "e", "a", "k", "e", "r", " ",
                          "n", "a", "m", "e">>)
     \/ /\ includes(lower, <<"s", "t", "a", "r", "t", " ", "t", "i", "m", "e">>)
        /\ includes(lower, <<"e", "n", "d", " ", "t", "i", "m", "e">>)

\* C16: the iteration of the extraction loop on a header row pushes no
\* entry, whatever else the row holds and whichever delimiter separated its
\* fields, so no entry ever comes from a header row.
C16_HeaderRowContributesNothing ==
  [][/\ (pc = "loop" /\ i' = i + 1 /\ IsHeaderRow(rows[i + 1])) =>
          subtitles' = subtitles /\ origin' = origin
     /\ \A k \in DOMAIN origin' : ~IsHeaderRow(rows'[origin'[k] + 1])
    ]_vars

\* A row holding two timecodes, a text and "Speaker Name" has been passed
\* over, and the other row has given the only entry.
C16_Witness ==
  /\ pc = "done"
  /\ Len(rows) = 2
  /\ Len(subtitles) = 1
  /\ \E r \in DOMAIN rows :
       /\ IsHeaderRow(rows[r])
       /\ Len(rows[r]) = 4
       /\ IsTimecode(rows[r][1]) /\ IsTimecode(rows[r][2])
       /\ origin[1] # r - 1

\* The fields of a row up to the end of its layout: three when field 0 is a
\* timecode, four when it is not; a shorter row is left whole.
RecognizedPart(fields) ==
  IF fields # <<>> /\ IsTimecode(fields[1]) /\ Len(fields) >= 3
    THEN SubSeq(fields, 1, 3)
  ELSE IF fields # <<>> /\ ~IsTimecode(fields[1]) /\ Len(fields) >= 4
    THEN SubSeq(fields, 1, 4)
  ELSE fields

\* C17: for every row that holds fields beyond its layout and whose fields
\* within the layout make a record, the returned text is the text returned
\* for the same rows with those further fields removed, so nothing of them
\* reaches the output.
C17_ExtraColumnsIgnored ==
  (pc = "done" /\ rows # <<>>) =>
    \A r \in DOMAIN rows :
      LET part == RecognizedPart(rows[r])
      IN (Len(rows[r]) > Len(part) /\ rowEntries(part) # <<>>) =>
           ret = formatSrt(gapPass(
                   extractFrom([rows EXCEPT ![r] = part], 0, <<>>),
                   removeGaps))

\* The entry has a start, an end and a text that are present and not empty.
WellFormedEntry(e) ==
  /\ e.start # NULL /\ e.start # <<>>
  /\ e.end # NULL /\ e.end # <<>>
  /\ e.text # NULL /\ trim(e.text) # <<>>

\* The row's own columns would give an entry lacking a start, an end or a
\* text: a timecode that does not convert, or a text that is blank.
LacksStartEndOrText(f) ==
  IF f # <<>> /\ IsTimecode(f[1]) /\ Len(f) >= 3
    THEN ~IsTimecode(f[2]) \/ trim(f[3]) = <<>>
  ELSE IF f # <<>> /\ ~IsTimecode(f[1]) /\ Len(f) >= 4
    THEN ~IsTimecode(f[2]) \/ ~IsTimecode(f[3]) \/ trim(f[4]) = <<>>
  ELSE TRUE

\* C18: in every state, during the extraction loop and after the gap pass,
\* every entry of the sequence has a non-null, non-empty start and end and
\* a text that is not empty after trimming; and the iteration on a row whose
\* columns would give an entry without one of them pushes nothing.
C18_EntriesWellFormed ==
  /\ [](\A k \in DOMAIN subtitles : WellFormedEntry(subtitles[k]))
  /\ [][(pc = "loop" /\ i' = i + 1 /\ LacksStartEndOrText(rows[i + 1])) =>
          subtitles' = subtitles]_vars

\* After the gap pass one entry stands, and the other row, with two
\* timecodes and a blank text, has given none.
C18_Witness ==
  /\ pc = "format"
  /\ Len(rows) = 2
  /\ Len(subtitles) = 1
  /\ \E r \in DOMAIN rows :
       /\ Len(rows[r]) = 3
       /\ IsTimecode(rows[r][1]) /\ IsTimecode(rows[r][2])
       /\ trim(rows[r][3]) = <<>>

\* The text field of the row an entry was pushed from, as the tokenizer
\* reads it from the text the caller passed.
SourceTextField(k) ==
  LET f == parseCSVRows(csvText)[origin[k] + 1]
  IN IF IsTimecode(f[1]) THEN f[3] ELSE f[4]

\* C19 as stated: the text of every entry is the text field of the source
\* with leading and trailing whitespace removed and every other character
\* as it stands in the source, whatever the line endings of the input.
C19_TextVerbatim ==
  Returned =>
    \A k \in DOMAIN subtitles : subtitles[k].text = trim(SourceTextField(k))

\* C19 amended: the text of every entry is the text field of the source with
\* every CRLF pair and every lone CR replaced by LF, then leading and
\* trailing whitespace removed; every other character is kept, the line
\* breaks and delimiters of a quoted field included.
C19_TextTrimmedLineEndingsNormalized ==
  Returned =>
    \A k \in DOMAIN subtitles :
      subtitles[k].text = trim(normalizeLineEndings(SourceTextField(k)))

\* A quoted text field holding a CRLF pair has been stored with one LF.
C19_Witness ==
  /\ pc = "done"
  /\ \E k \in DOMAIN subtitles :
       /\ \E n \in DOMAIN SourceTextField(k) : SourceTextField(k)[n] = CR
       /\ subtitles[k].text = <<"c", LF, "d">>

\* The row is blank: it has no field, or its fields hold only whitespace.
IsBlankRow(f) == f = <<>> \/ trim(join(f, <<>>)) = <<>>

\* The row is neither blank nor a header, matches a layout, and has a valid
\* start, a valid end and a text that is not blank.
Qualifies(f) == ~IsBlankRow(f) /\ ~IsHeaderRow(f) /\ ~LacksStartEndOrText(f)

\* The entry of a qualifying row, from its own fields.
EntryOf(f) ==
  [start |-> OwnStart(f), end |-> OwnEnd(f),
   text |-> trim(IF IsTimecode(f[1]) THEN f[3] ELSE f[4])]

\* The entries of the qualifying rows among the first n rows, in row order.
RECURSIVE QualifyingEntries(_, _)
QualifyingEntries(rs, n) ==
  IF n = 0 THEN <<>>
  ELSE QualifyingEntries(rs, n - 1) \o
         (IF Qualifies(rs[n]) THEN <<EntryOf(rs[n])>> ELSE <<>>)

\* C20: with removeGaps false the call raises nothing, and after each
\* iteration of the extraction loop, and at the return, the entries are
\* those of the qualifying rows read so far, each made from its own row, in
\* the order of the rows; the returned text is their serialisation.
C20_SkippedRowsLeaveOthersAlone ==
  options = OptObject(FALSE) =>
    /\ pc # "raised"
    /\ (pc \in {"loop", "format", "done"}) =>
          /\ subtitles = QualifyingEntries(rows, i)
          /\ \A k \in DOMAIN origin : k > 1 => origin[k - 1] < origin[k]
    /\ (pc \in {"format", "done"} /\ rows # <<>>) => i = Len(rows)
    /\ (pc = "done" /\ rows # <<>>) =>
          ret = formatSrt(QualifyingEntries(rows, Len(rows)))

\* With gap removal disabled the first row was skipped and the second row
\* has given the only entry of the returned text.
C20_Witness ==
  /\ pc = "done"
  /\ options = OptObject(FALSE)
  /\ Len(rows) = 2
  /\ ~Qualifies(rows[1])
  /\ origin = <<1>>
  /\ ret # <<>>

\* The text argument is null, the empty string, or whitespace only.
NoInput == csvText = NULL \/ (csvText # NumberArg /\ IsBlank(csvText))

\* C21: for a null, empty or whitespace-only text, with removeGaps true or
\* false, the call raises nothing, takes no step of the pipeline, and
\* returns the empty string.
C21_EmptyInputReturnsEmpty ==
  (NoInput /\ options \in {OptObject(TRUE), OptObject(FALSE)}) =>
    /\ pc \in {"call", "try", "done"}
    /\ rows = <<>> /\ subtitles = <<>>
    /\ pc = "done" => ret = <<>>

\* A text of line terminators only has returned the empty string with gap
\* removal disabled.
C21_Witness ==
  /\ pc = "done"
  /\ options = OptObject(FALSE)
  /\ csvText # NULL /\ csvText # <<>> /\ IsBlank(csvText)
  /\ ret = <<>>

\* C22: no call raises to its caller; whatever the text and the options
\* argument, a call that has ended has returned a string, the error text of
\* the catch block when a step of the call failed.
C22_NeverRaises ==
  /\ pc # "raised"
  /\ pc \in {"done", "caught"} => ret \notin {NULL, NotCalled, Raised}
  /\ pc = "caught" => SubSeq(ret, 1, Len(ErrorPrefix)) = ErrorPrefix

\* The flag is among the command-line arguments.
Given(flag) == \E k \in DOMAIN argv : argv[k] = flag

HelpGiven == Given("--help") \/ Given("-h")

C25_OutputFollowsInput ==
  appEvent # "none" => srtOutputValue = appCsvToSrt(csvInputValue, checked)

\* One of two loads in flight has completed while the other is pending, and
\* the output area shows a conversion that depends on the checkbox.
C25_Witness ==
  /\ appEvent = "load"
  /\ readers # <<>>
  /\ srtOutputValue # <<>>
  /\ srtOutputValue # appCsvToSrt(csvInputValue, ~checked)

\* A data line: at least one character, none of them a quote or a line
\* terminator.
IsDataLine(s) ==
  s # <<>> /\ \A k \in DOMAIN s : s[k] \notin {QUOTE, LF, CR}

\* The positions p at which the text reads: data line, terminator, empty
\* line, terminator, data line.
BlankLineAt(text) ==
  {p \in 2..(Len(text) - 2) :
     /\ text[p] \in {LF, CR} /\ text[p + 1] = text[p]
     /\ IsDataLine(SubSeq(text, 1, p - 1))
     /\ IsDataLine(SubSeq(text, p + 2, Len(text)))}

\* C26 as stated: a single blank line between two data lines gives one
\* empty row entry between the rows of the two lines.
C26_BlankLineGivesEmptyRow ==
  (tokFn = "rows" /\ tokPc = "returned" /\ BlankLineAt(tokText) # {}) =>
    /\ Len(tokRet) = 3
    /\ tokRet[2] \in {<<>>, <<<<>>>>}

\* C26 amended: a single blank line between two data lines gives no row
\* entry; the returned rows are the rows of the two data lines and nothing
\* else, so no empty row reaches the classification.
C26_BlankLineGivesNoRow ==
  (tokFn = "rows" /\ tokPc = "returned") =>
    \A p \in BlankLineAt(tokText) :
      /\ tokRet = <<split(SubSeq(tokText, 1, p - 1), {COMMA, TAB}),
                    split(SubSeq(tokText, p + 2, Len(tokText)), {COMMA, TAB})>>
      /\ \A r \in DOMAIN tokRet : tokRet[r] \notin {<<>>, <<<<>>>>}

\* Two data lines ended by carriage returns, an empty line between them,
\* have been returned as two rows.
C26_Witness ==
  /\ tokFn = "rows"
  /\ tokPc = "returned"
  /\ tokText = <<"a", CR, CR, "a">>
  /\ Len(tokRet) = 2

\* The row is a data row in a supported layout: at least 3 fields with
\* valid timecodes in fields 0 and 1 and a text in field 2 that is not
\* blank, or at least 4 fields with no timecode in field 0, valid timecodes
\* in fields 1 and 2 and a text in field 3 that is not blank.
InSupportedLayout(f) ==
  \/ /\ Len(f) >= 3
     /\ IsTimecode(f[1]) /\ IsTimecode(f[2]) /\ trim(f[3]) # <<>>
  \/ /\ Len(f) >= 4
     /\ ~IsTimecode(f[1]) /\ IsTimecode(f[2]) /\ IsTimecode(f[3])
     /\ trim(f[4]) # <<>>

\* C27: every row in a supported layout that the extraction loop has
\* passed has given exactly one entry, and the entry carries the row's
\* text, trimmed, whatever the text or the speaker field says.
C27_LayoutRowGivesOneEntry ==
  pc \in {"loop", "format", "done"} =>
    \A r \in 1..i :
      InSupportedLayout(rows[r]) =>
        /\ Cardinality({k \in DOMAIN origin : origin[k] = r - 1}) = 1
        /\ \A k \in DOMAIN origin :
             origin[k] = r - 1 =>
               subtitles[k].text =
                 trim(IF IsTimecode(rows[r][1]) THEN rows[r][3] ELSE rows[r][4])

\* C28: what the front end shows after a handled event is what the
\* library's csvToSrt returns for the input area's text with removeGaps set
\* to the checkbox's state.
C28_FrontEndMatchesLibrary ==
  appEvent # "none" =>
    srtOutputValue = csvToSrt(csvInputValue, OptObject(checked))

\* C29: whenever no click of a button is waiting and none of its timers is
\* pending, the button shows the label it had before the first click.
C29_LabelsRestored ==
  /\ (copyPending = <<>> /\ copyTimers = <<>>) => copyLabel = CopyButtonText
  /\ downloadTimers = <<>> => downloadLabel = DownloadButtonText

====
